---- MODULE Spec2Model ----
(***************************************************************************)
(* Model of "Scripts/2.7 Refining and Presenting a Dashboard.py": one run  *)
(* of the Streamlit script, top to bottom.  The state is the two input     *)
(* files, the page picked in the sidebar, the script's module-level        *)
(* globals, what has been shown, and the position of the run (pc).  Each   *)
(* action is one block of the script.                                      *)
(*                                                                         *)
(* Encodings.  A date is its day number in 2022 (1 = 2022-01-01).  A float *)
(* that the script gets from a division is the exact fraction [num, den];  *)
(* 0.0 is [num |-> 0, den |-> 1] and NaN is [num |-> 0, den |-> 0].  A     *)
(* column label is the tuple of its characters, so that lower() and the    *)
(* substring tests are computed.  A cell of the ranking table is an        *)
(* integer: a count in a value column, the index of a station in           *)
(* StationNames in a name column, NaN for an empty cell.                   *)
(***************************************************************************)
EXTENDS Integers, Sequences, FiniteSets, TLC

\* ------------------------------------------------------------------------
\* Bounds of the model
\* ------------------------------------------------------------------------
MaxTrips == 3
MaxRows == 6
MaxCols == 3
MaxSchemaRows == 1

\* ------------------------------------------------------------------------
\* Generic helpers
\* ------------------------------------------------------------------------
Range(s) == {s[i] : i \in 1..Len(s)}

RECURSIVE SumSeq(_)
SumSeq(s) == IF s = <<>> THEN 0 ELSE s[1] + SumSeq(Tail(s))

Rat(n, d) == [num |-> n, den |-> d]
Zero == Rat(0, 1)
NaNf == Rat(0, 0)
RatEq(a, b) == a.den # 0 /\ b.den # 0 /\ a.num * b.den = b.num * a.den
RatAdd(a, b) == Rat(a.num * b.den + b.num * a.den, a.den * b.den)

RECURSIVE RatSum(_)
RatSum(s) == IF s = <<>> THEN Zero ELSE RatAdd(s[1], RatSum(Tail(s)))

\* Series.sort_values / nargsort, ascending: the position of element i is the
\* number of smaller keys plus the number of equal keys before it.
AscOrder(keys) ==
  LET n == Len(keys)
      pos(i) == Cardinality({j \in 1..n : keys[j] < keys[i]})
                + Cardinality({j \in 1..i : keys[j] = keys[i]})
  IN [p \in 1..n |-> CHOOSE i \in 1..n : pos(i) = p]

\* nargsort with ascending=False: reverse, argsort, reverse back, which keeps
\* equal keys in their original order.
DescOrder(keys) ==
  LET n == Len(keys)
      pos(i) == Cardinality({j \in 1..n : keys[j] > keys[i]})
                + Cardinality({j \in 1..i : keys[j] = keys[i]})
  IN [p \in 1..n |-> CHOOSE i \in 1..n : pos(i) = p]

Permute(s, order) == [p \in 1..Len(s) |-> s[order[p]]]

\* the elements of a set of integers, ascending (groupby sorts its keys)
SortedSet(S) ==
  [p \in 1..Cardinality(S) |-> CHOOSE d \in S : Cardinality({e \in S : e < d}) = p - 1]

Head_(s, k) == SubSeq(s, 1, IF Len(s) < k THEN Len(s) ELSE k)

\* ------------------------------------------------------------------------
\* Calendar: what pandas' Timestamp.month, day_name() and strftime('%B') give
\* for a day of 2022
\* ------------------------------------------------------------------------
MonthEnds == <<31, 59, 90, 120, 151, 181, 212, 243, 273, 304, 334, 365>>
Month(d) == CHOOSE m \in 1..12 : d <= MonthEnds[m] /\ (m = 1 \/ d > MonthEnds[m - 1])

DayNames == <<"Monday", "Tuesday", "Wednesday", "Thursday", "Friday", "Saturday", "Sunday">>
\* 2022-01-01 was a Saturday
DayName(d) == DayNames[((d + 4) % 7) + 1]

MonthNames == <<"January", "February", "March", "April", "May", "June", "July",
                "August", "September", "October", "November", "December">>
MonthName(m) == MonthNames[m]

\* the days of 2022 the trip file may hold: Wed 5 Jan, Sat 2 Apr, Sun 3 Apr,
\* Fri 10 Jun, Sun 11 Sep, Wed 21 Dec
Dates == {5, 92, 93, 161, 254, 355}

\* ------------------------------------------------------------------------
\* Column labels, as tuples of characters
\* ------------------------------------------------------------------------
UpperAlpha == <<"A", "B", "C", "D", "E", "F", "G", "H", "I", "J", "K", "L", "M", "N", "O", "P", "Q", "R", "S", "T", "U", "V", "W", "X", "Y", "Z">>
LowerAlpha == <<"a", "b", "c", "d", "e", "f", "g", "h", "i", "j", "k", "l", "m", "n", "o", "p", "q", "r", "s", "t", "u", "v", "w", "x", "y", "z">>
LowerChar(ch) ==
  IF \E i \in 1..Len(UpperAlpha) : UpperAlpha[i] = ch
  THEN LowerAlpha[CHOOSE i \in 1..Len(UpperAlpha) : UpperAlpha[i] = ch]
  ELSE ch
\* str.lower()
Lower(c) == [i \in 1..Len(c) |-> LowerChar(c[i])]
\* sub in c
Contains(c, sub) ==
  \E i \in 0..(Len(c) - Len(sub)) : SubSeq(c, i + 1, i + Len(sub)) = sub

START == <<"s", "t", "a", "r", "t">>
STATION == <<"s", "t", "a", "t", "i", "o", "n">>
SSN == <<"s", "t", "a", "r", "t", "_", "s", "t", "a", "t", "i", "o", "n", "_", "n", "a", "m", "e">>
VALUE == <<"v", "a", "l", "u", "e">>
COUNT == <<"c", "o", "u", "n", "t">>
TRIPS == <<"t", "r", "i", "p", "s">>
TRIP_COUNT == <<"t", "r", "i", "p", "_", "c", "o", "u", "n", "t">>
SHARE_OF_TOP20 == <<"s", "h", "a", "r", "e", "_", "o", "f", "_", "t", "o", "p", "2", "0">>
\* labels a ranking file may carry besides the two expected ones
L_StartStation == <<"S", "t", "a", "r", "t", " ", "S", "t", "a", "t", "i", "o", "n">>
L_start_station_id == <<"s", "t", "a", "r", "t", "_", "s", "t", "a", "t", "i", "o", "n", "_", "i", "d">>
L_Count == <<"C", "o", "u", "n", "t">>
L_rank == <<"r", "a", "n", "k">>
Labels == {SSN, VALUE, L_StartStation, L_start_station_id, TRIPS, L_Count, L_rank}

StationNames == <<"Grove St PATH", "Hoboken Terminal", "South Waterfront Walkway",
                  "City Hall", "Newport Pkwy", "Hamilton Park", "Newport PATH",
                  "Liberty Light Rail">>
NaN == -1

\* ------------------------------------------------------------------------
\* Derived fields and quick stats (lines 51, 70-101)
\* ------------------------------------------------------------------------
\* pd.read_csv(DATA_PATH, parse_dates=['date']).sort_values('date')
ReadTrips(csv) ==
  Permute([i \in 1..Len(csv) |-> [date |-> csv[i]]], AscOrder(csv))

season_of(d) ==
  LET m == Month(d)
  IN IF m \in {12, 1, 2} THEN "Winter"
     ELSE IF m \in {3, 4, 5} THEN "Spring"
     ELSE IF m \in {6, 7, 8} THEN "Summer"
     ELSE "Fall"

\* df['season'] = df['date'].apply(season_of)
AddSeason(frame) ==
  [i \in 1..Len(frame) |-> [date |-> frame[i].date, season |-> season_of(frame[i].date)]]

TripsOf(frame) == [i \in 1..Len(frame) |-> frame[i].trips]

\* variant: one trip per distinct date (the rows of a date are not counted)
Daily_Distinct(frame) ==
  LET ds == SortedSet({frame[i].date : i \in 1..Len(frame)})
  IN [p \in 1..Len(ds) |-> [date |-> ds[p], trips |-> 1]]

\* df.groupby('date').size().reset_index(name='trips')
Daily(frame) ==
  LET ds == SortedSet({frame[i].date : i \in 1..Len(frame)})
  IN [p \in 1..Len(ds) |->
        [date |-> ds[p],
         trips |-> Cardinality({i \in 1..Len(frame) : frame[i].date = ds[p]})]]

\* Series.mean(): NaN on an empty series
Mean(counts) == IF counts = <<>> THEN NaNf ELSE Rat(SumSeq(counts), Len(counts))

\* Series.median(): NaN on an empty series
Median(counts) ==
  LET n == Len(counts)
      srt == Permute(counts, AscOrder(counts))
  IN IF n = 0 THEN NaNf
     ELSE IF n % 2 = 1 THEN Rat(srt[(n + 1) \div 2], 1)
     ELSE Rat(srt[n \div 2] + srt[(n \div 2) + 1], 2)

\* variant: the last position of the maximum
IdxMax_Last(counts) ==
  CHOOSE i \in 1..Len(counts) :
    /\ \A j \in 1..Len(counts) : counts[j] <= counts[i]
    /\ \A j \in (i + 1)..Len(counts) : counts[j] < counts[i]

\* Series.idxmax(): the first position of the maximum
IdxMax(counts) ==
  CHOOSE i \in 1..Len(counts) :
    /\ \A j \in 1..Len(counts) : counts[j] <= counts[i]
    /\ \A j \in 1..(i - 1) : counts[j] < counts[i]

\* daily.assign(month=...to_period('M')).groupby('month')['trips'].sum(), with month_name
Monthly(dly) ==
  LET ms == SortedSet({Month(dly[i].date) : i \in 1..Len(dly)})
  IN [p \in 1..Len(ms) |->
        [month |-> ms[p],
         trips |-> SumSeq(TripsOf(SelectSeq(dly, LAMBDA r : Month(r.date) = ms[p]))),
         month_name |-> MonthName(ms[p])]]

\* variant: ascending=True
SortByTripsAsc(frame) == Permute(frame, AscOrder(TripsOf(frame)))

\* frame.sort_values('trips', ascending=False)
SortByTripsDesc(frame) == Permute(frame, DescOrder(TripsOf(frame)))

\* groupby('season') sorts its keys, which are strings
SeasonKeys == <<"Fall", "Spring", "Summer", "Winter">>

\* df.groupby('season').size().reset_index(name='trips')
SeasonSizes(frame) ==
  LET keys == SelectSeq(SeasonKeys, LAMBDA k : \E i \in 1..Len(frame) : frame[i].season = k)
  IN [p \in 1..Len(keys) |->
        [season |-> keys[p],
         trips |-> Cardinality({i \in 1..Len(frame) : frame[i].season = keys[p]})]]

Seasonal(frame) == SortByTripsDesc(SeasonSizes(frame))

\* daily['dow'], daily['is_weekend']
AddWeekend(dly) ==
  [i \in 1..Len(dly) |->
     [date |-> dly[i].date, trips |-> dly[i].trips, dow |-> DayName(dly[i].date),
      is_weekend |-> DayName(dly[i].date) \in {"Saturday", "Sunday"}]]

WeekendTotal(dly) == SumSeq(TripsOf(SelectSeq(dly, LAMBDA r : r.is_weekend)))
WeekdayTotal(dly) == SumSeq(TripsOf(SelectSeq(dly, LAMBDA r : ~r.is_weekend)))

\* variant: the weekday total over the sum
WeekendShare_Weekday(we, wd) == IF we + wd > 0 THEN Rat(wd, we + wd) ELSE Zero

WeekendShare(we, wd) == IF we + wd > 0 THEN Rat(we, we + wd) ELSE Zero

\* ------------------------------------------------------------------------
\* The ranking table (lines 52-65, 110-119, 129-141).  A frame is
\* [cols |-> labels, rows |-> rows of cells]; after the preparation it also
\* carries the column share_of_top20, kept as its own field because its
\* cells are fractions.
\* ------------------------------------------------------------------------
\* pd.DataFrame(columns=['start_station_name','value'])
EmptyTop20 == [cols |-> <<SSN, VALUE>>, rows |-> <<>>]

HasColumn(t, label) == \E j \in 1..Len(t.cols) : t.cols[j] = label

\* 'start' in c.lower() and 'station' in c.lower()
NameQualifies(c) == Contains(Lower(c), START) /\ Contains(Lower(c), STATION)

\* c.lower() in ['count','trips','trip_count','value']
ValueQualifies(c) == Lower(c) \in {COUNT, TRIPS, TRIP_COUNT, VALUE}

\* top20.rename(columns={c: new})
Rename(t, c, new) ==
  [t EXCEPT !.cols = [j \in 1..Len(t.cols) |-> IF t.cols[j] = c THEN new ELSE t.cols[j]]]

\* for c in top20.columns: if <qualifies>: top20 = top20.rename(...)
\* (its is the column index the loop iterates over, taken before the loop)
RECURSIVE NameLoop(_, _)
NameLoop(t, its) ==
  IF its = <<>> THEN t
  ELSE NameLoop(IF NameQualifies(its[1]) THEN Rename(t, its[1], SSN) ELSE t, Tail(its))

RECURSIVE ValueLoop(_, _)
ValueLoop(t, its) ==
  IF its = <<>> THEN t
  ELSE ValueLoop(IF ValueQualifies(its[1]) THEN Rename(t, its[1], VALUE) ELSE t, Tail(its))

NormalizeColumns(t) ==
  LET t1 == IF ~HasColumn(t, SSN) THEN NameLoop(t, t.cols) ELSE t
  IN IF ~HasColumn(t1, VALUE) THEN ValueLoop(t1, t1.cols) ELSE t1

\* DataFrame.empty: some axis has length 0
IsEmpty(t) == Len(t.rows) = 0 \/ Len(t.cols) = 0

\* the positions of the columns carrying a label, in column order
ColIdx(t, label) ==
  SelectSeq([j \in 1..Len(t.cols) |-> j], LAMBDA j : t.cols[j] = label)

\* top20[['start_station_name','value']] raises KeyError when a label is missing
SelectRaises(t) == ~HasColumn(t, SSN) \/ ~HasColumn(t, VALUE)

\* top20[['start_station_name','value']]: every column carrying either label
SelectColumns(t) ==
  LET idx == ColIdx(t, SSN) \o ColIdx(t, VALUE)
  IN [cols |-> [k \in 1..Len(idx) |-> t.cols[idx[k]]],
      rows |-> [r \in 1..Len(t.rows) |-> [k \in 1..Len(idx) |-> t.rows[r][idx[k]]]]]

\* DataFrame.dropna(): drop the rows that hold a NaN
DropNa(t) ==
  [t EXCEPT !.rows = SelectSeq(t.rows, LAMBDA row : \A k \in 1..Len(row) : row[k] # NaN)]

\* sort_values('value') raises ValueError when the label 'value' is not unique
SortRaises(t) == Len(ColIdx(t, VALUE)) > 1

ValueColumn(t) == [r \in 1..Len(t.rows) |-> t.rows[r][ColIdx(t, VALUE)[1]]]

\* sort_values('value', ascending=False).reset_index(drop=True)
SortByValueDesc(t) == [t EXCEPT !.rows = Permute(t.rows, DescOrder(ValueColumn(t)))]

\* line 112 raises: only a non-empty frame is prepared
PrepRaises(t) ==
  ~IsEmpty(t) /\ (SelectRaises(t) \/ SortRaises(DropNa(SelectColumns(t))))

\* int(top20['value'].sum()) if 'value' in top20.columns else 0
Top20Total(t) == IF HasColumn(t, VALUE) THEN SumSeq(ValueColumn(t)) ELSE 0

\* variant: the count over the number of rows
ShareOfTop20_ByRows(t, total) ==
  [r \in 1..Len(t.rows) |-> IF total > 0 THEN Rat(ValueColumn(t)[r], Len(t.rows)) ELSE Zero]

\* top20['value'] / top20_total, or 0.0 in every row
ShareOfTop20(t, total) ==
  [r \in 1..Len(t.rows) |-> IF total > 0 THEN Rat(ValueColumn(t)[r], total) ELSE Zero]

\* top20.iloc[r][label]: the cell, or a Series of cells when the label is not unique
CellAt(t, r, label) ==
  LET idx == ColIdx(t, label)
  IN IF Len(idx) = 1 THEN t.rows[r][idx[1]]
     ELSE [k \in 1..Len(idx) |-> t.rows[r][idx[k]]]

\* the text of a name cell
NameOf(x) ==
  IF x \in Int THEN StationNames[x] ELSE [k \in DOMAIN x |-> StationNames[x[k]]]

\* variant: the picks are computed from 4 rows on
PicksComputed_FourRows(t, total) == total > 0 /\ Len(t.rows) >= 4

\* the least number of prepared rows for which the top picks are computed
MinPickRows == 5

PicksComputed(t, total) == total > 0 /\ Len(t.rows) >= MinPickRows

DefaultPicks ==
  [t1_name |-> "", t2_name |-> "", t3_name |-> "",
   t1_val |-> 0, t2_val |-> 0, t3_val |-> 0,
   top1_share |-> Zero, top3_share |-> Zero, top5_share |-> Zero]

HandyPicks(t, total) ==
  IF PicksComputed(t, total)
  THEN [t1_name |-> NameOf(CellAt(t, 1, SSN)), t1_val |-> CellAt(t, 1, VALUE),
        t2_name |-> NameOf(CellAt(t, 2, SSN)), t2_val |-> CellAt(t, 2, VALUE),
        t3_name |-> NameOf(CellAt(t, 3, SSN)), t3_val |-> CellAt(t, 3, VALUE),
        top1_share |-> t.share_of_top20[1],
        top3_share |-> Rat(CellAt(t, 1, VALUE) + CellAt(t, 2, VALUE) + CellAt(t, 3, VALUE), total),
        top5_share |-> Rat(SumSeq(Head_(ValueColumn(t), 5)), total)]
  ELSE DefaultPicks

\* ------------------------------------------------------------------------
\* State
\* ------------------------------------------------------------------------
VARIABLES
  pc,                 \* position of the run
  page,               \* the sidebar selection (line 34)
  data_exists,        \* os.path.exists(DATA_PATH)
  data_csv,           \* the dates of the rows of DATA_PATH, in file order
  top20_exists,       \* os.path.exists(TOP20_PATH)
  top20_csv,          \* the frame read from TOP20_PATH
  shown,              \* what the run has put on the page
  view,               \* the page view rendered, "none" before
  error,              \* the exception that ended the run, "" if none
  bound,              \* the names of the globals assigned so far
  df, top20,
  daily, sample_total, date_min, date_max, avg_daily, median_daily,
  peak_date, peak_dow, peak_trips,
  monthly, monthly_sorted, seasonal,
  weekend_total, weekday_total, weekend_share,
  type_counts, top20_total, sample_station_counts,
  top_months, picks

inputs == <<page, data_exists, data_csv, top20_exists, top20_csv>>
tripStats == <<daily, sample_total, date_min, date_max, avg_daily, median_daily,
               peak_date, peak_dow, peak_trips, monthly, monthly_sorted, seasonal,
               weekend_total, weekday_total, weekend_share, type_counts>>
rankStats == <<top20_total, sample_station_counts>>
pickStats == <<top_months, picks>>
vars == <<pc, inputs, shown, view, error, bound, df, top20, tripStats, rankStats, pickStats>>

Pages == {"Intro page", "Weather component and bike usage", "Most popular stations",
          "Interactive map with aggregated bike trips", "Recommendations"}

\* pandas' NaT, as a day number
NaT == 0

TripStatNames == {"daily", "sample_total", "date_min", "date_max", "avg_daily",
                  "median_daily", "peak_date", "peak_dow", "peak_trips", "monthly",
                  "monthly_sorted", "seasonal", "weekend_total", "weekday_total",
                  "weekend_share", "type_counts"}
RankStatNames == {"top20_total", "sample_station_counts"}
PickNames == {"top_months", "picks"}

\* ------------------------------------------------------------------------
\* The input files the model runs the script on
\* ------------------------------------------------------------------------
\* every trip file of at most MaxTrips rows with dates in Dates, in any order
TripFiles == UNION {[1..n -> Dates] : n \in 0..MaxTrips}

\* three trips: Wed 5 Jan 2022 and twice Fri 10 Jun 2022
SampleTrips == <<161, 5, 161>>

\* the counts a ranking file may hold
RankCounts == {0, 1}

\* row i of a ranking file: station i with a count, station i without a count,
\* or a count without a station
RowChoices(i) == {<<i, v>> : v \in RankCounts} \cup {<<i, NaN>>, <<NaN, 1>>}

RECURSIVE RowSeqs(_)
RowSeqs(n) ==
  IF n = 0 THEN {<<>>}
  ELSE {Append(rs, r) : <<rs, r>> \in RowSeqs(n - 1) \X RowChoices(n)}

\* every ranking file with the two expected labels and at most MaxRows rows
RankFiles == {[cols |-> <<SSN, VALUE>>, rows |-> rs] : rs \in UNION {RowSeqs(n) : n \in 0..MaxRows}}

RECURSIVE ColSeqs(_)
ColSeqs(n) ==
  IF n = 0 THEN {<<>>}
  ELSE UNION {{Append(cs, l) : l \in Labels \ Range(cs)} : cs \in ColSeqs(n - 1)}

\* every ranking file with 1..MaxCols distinct labels out of Labels and at most
\* MaxSchemaRows rows; row r holds r in every cell
SchemaFiles ==
  {[cols |-> cs, rows |-> [r \in 1..k |-> [j \in 1..Len(cs) |-> r]]] :
     <<cs, k>> \in (UNION {ColSeqs(n) : n \in 1..MaxCols}) \X (0..MaxSchemaRows)}

NoFile == [cols |-> <<>>, rows |-> <<>>]

Init ==
  /\ pc = "start"
  /\ shown = {}
  /\ view = "none"
  /\ error = ""
  /\ bound = {}
  /\ df = <<>>
  /\ top20 = NoFile
  /\ daily = <<>> /\ sample_total = 0 /\ date_min = NaT /\ date_max = NaT
  /\ avg_daily = NaNf /\ median_daily = NaNf
  /\ peak_date = NaT /\ peak_dow = "" /\ peak_trips = 0
  /\ monthly = <<>> /\ monthly_sorted = <<>> /\ seasonal = <<>>
  /\ weekend_total = 0 /\ weekday_total = 0 /\ weekend_share = Zero
  /\ type_counts = <<>> /\ top20_total = 0 /\ sample_station_counts = <<>>
  /\ top_months = <<>> /\ picks = DefaultPicks
  \* The quick stats read only the trip file and the ranking statements only
  \* the ranking file, so the runs are taken over every trip file with one
  \* ranking input, and over every ranking file with one trip file.
  /\ \/ \* the trip file is missing
        /\ data_exists = FALSE /\ data_csv = <<>>
        /\ page \in Pages
        /\ top20_exists \in BOOLEAN
        /\ top20_csv = IF top20_exists THEN EmptyTop20 ELSE NoFile
     \/ \* every trip file, no ranking file
        /\ data_exists = TRUE /\ data_csv \in TripFiles
        /\ page \in Pages
        /\ top20_exists = FALSE /\ top20_csv = NoFile
     \/ \* every ranking file with the expected labels
        /\ data_exists = TRUE /\ data_csv = SampleTrips
        /\ page = "Most popular stations"
        /\ top20_exists = TRUE /\ top20_csv \in RankFiles
     \/ \* every labelling of the ranking file
        /\ data_exists = TRUE /\ data_csv = SampleTrips
        /\ page \in {"Most popular stations", "Recommendations"}
        /\ top20_exists = TRUE /\ top20_csv \in SchemaFiles

\* ------------------------------------------------------------------------
\* The script, block by block
\* ------------------------------------------------------------------------
\* variant: the existence check never reports a missing file
DataMissing_Never == FALSE

\* line 47: not os.path.exists(DATA_PATH)
DataMissing == ~data_exists

\* lines 27-49: title, sidebar, and st.error / st.stop when the trip file is missing
StopOnMissingData ==
  /\ pc = "start"
  /\ DataMissing
  /\ shown' = shown \cup {"title", "sidebar", "error: Data file not found"}
  /\ pc' = "stopped"
  /\ UNCHANGED <<inputs, view, error, bound, df, top20, tripStats, rankStats, pickStats>>

\* lines 27-55: title, sidebar, read the trip file and the ranking file
LoadData ==
  /\ pc = "start"
  /\ ~DataMissing
  /\ shown' = shown \cup {"title", "sidebar"}
  /\ IF data_exists
     THEN /\ df' = ReadTrips(data_csv)
          /\ top20' = IF top20_exists THEN top20_csv ELSE EmptyTop20
          /\ bound' = bound \cup {"df", "top20"}
          /\ pc' = "normalize"
          /\ error' = error
     ELSE \* pd.read_csv on a missing file
          /\ error' = "FileNotFoundError"
          /\ pc' = "raised"
          /\ UNCHANGED <<df, top20, bound>>
  /\ UNCHANGED <<inputs, view, tripStats, rankStats, pickStats>>

\* lines 57-65
Normalize ==
  /\ pc = "normalize"
  /\ top20' = NormalizeColumns(top20)
  /\ pc' = "stats"
  /\ UNCHANGED <<inputs, shown, view, error, bound, df, tripStats, rankStats, pickStats>>

\* lines 70-108 on a trip file with at least one row
TripStats ==
  /\ pc = "stats"
  /\ Len(df) > 0
  /\ df' = AddSeason(df)
  /\ LET dly == Daily(df')
         peak_row == dly[IdxMax(TripsOf(dly))]
     IN /\ daily' = AddWeekend(dly)
        /\ sample_total' = Len(df')
        /\ date_min' = df'[AscOrder([i \in 1..Len(df') |-> df'[i].date])[1]].date
        /\ date_max' = df'[DescOrder([i \in 1..Len(df') |-> df'[i].date])[1]].date
        /\ avg_daily' = Mean(TripsOf(dly))
        /\ median_daily' = Median(TripsOf(dly))
        /\ peak_date' = peak_row.date
        /\ peak_dow' = DayName(peak_row.date)
        /\ peak_trips' = peak_row.trips
        /\ monthly' = Monthly(dly)
  /\ monthly_sorted' = SortByTripsDesc(monthly')
  /\ seasonal' = Seasonal(df')
  /\ weekend_total' = WeekendTotal(daily')
  /\ weekday_total' = WeekdayTotal(daily')
  /\ weekend_share' = WeekendShare(weekend_total', weekday_total')
  /\ type_counts' = <<>>   \* the trip file has no rideable_type column
  /\ bound' = bound \cup TripStatNames
  /\ pc' = "rank"
  /\ UNCHANGED <<inputs, shown, view, error, top20, rankStats, pickStats>>

\* lines 70-85 on a trip file with no row: the run ends in an exception.
\* Whether line 82 already raises depends on the dtype pandas gives the empty
\* date column: min() is NaN (a float, no .date()) for object, NaT for
\* datetime64; line 85 raises in any case (idxmax of an empty series).
TripStatsRaises ==
  /\ pc = "stats"
  /\ Len(df) = 0
  /\ df' = AddSeason(df)
  /\ daily' = Daily(df')
  /\ sample_total' = Len(df')
  /\ \/ /\ error' = "AttributeError"
        /\ bound' = bound \cup {"daily", "sample_total"}
        /\ UNCHANGED <<date_min, date_max, avg_daily, median_daily>>
     \/ /\ error' = "ValueError"
        /\ date_min' = NaT /\ date_max' = NaT
        /\ avg_daily' = Mean(TripsOf(daily'))
        /\ median_daily' = Median(TripsOf(daily'))
        /\ bound' = bound \cup {"daily", "sample_total", "date_min", "date_max",
                                "avg_daily", "median_daily"}
  /\ pc' = "raised"
  /\ UNCHANGED <<inputs, shown, view, top20, peak_date, peak_dow, peak_trips,
                 monthly, monthly_sorted, seasonal, weekend_total, weekday_total,
                 weekend_share, type_counts, rankStats, pickStats>>

\* lines 110-127
RankPrep ==
  /\ pc = "rank"
  /\ ~PrepRaises(top20)
  /\ IF ~IsEmpty(top20)
     THEN LET prepared == SortByValueDesc(DropNa(SelectColumns(top20)))
              total == Top20Total(prepared)
          IN /\ top20_total' = total
             /\ top20' = [cols |-> prepared.cols, rows |-> prepared.rows,
                          share_of_top20 |-> ShareOfTop20(prepared, total)]
     ELSE /\ top20_total' = 0
          /\ top20' = top20
  /\ sample_station_counts' = <<>>   \* the trip file has no start_station_name column
  /\ bound' = bound \cup RankStatNames
  /\ pc' = "picks"
  /\ UNCHANGED <<inputs, shown, view, error, df, tripStats, pickStats>>

\* line 112 on a non-empty frame that lacks a label (KeyError) or carries the
\* label 'value' twice (ValueError)
RankPrepRaises ==
  /\ pc = "rank"
  /\ PrepRaises(top20)
  /\ error' = IF SelectRaises(top20) THEN "KeyError" ELSE "ValueError"
  /\ pc' = "raised"
  /\ UNCHANGED <<inputs, shown, view, bound, df, top20, tripStats, rankStats, pickStats>>

\* lines 129-141
PickStep ==
  /\ pc = "picks"
  /\ top_months' = Head_(monthly_sorted, 3)
  /\ picks' = HandyPicks(top20, top20_total)
  /\ bound' = bound \cup PickNames
  /\ pc' = "render"
  /\ UNCHANGED <<inputs, shown, view, error, df, top20, tripStats, rankStats>>

\* line 230: "if t1_name:" raises ValueError when t1_name is a Series, which
\* it is when the picks were computed from a frame that carries the label
\* start_station_name twice
NameIsSeries(t, total) == PicksComputed(t, total) /\ Len(ColIdx(t, SSN)) > 1

\* lines 159-239: the view of the selected page
Render ==
  /\ pc = "render"
  /\ IF page = "Recommendations" /\ NameIsSeries(top20, top20_total)
     THEN /\ error' = "ValueError"
          /\ pc' = "raised"
          /\ shown' = shown \cup {"recommendations"}
          /\ view' = view
     ELSE /\ error' = error
          /\ pc' = "done"
          /\ view' = page
          /\ \E map_exists \in BOOLEAN :
               shown' = shown \cup
                 CASE page = "Intro page" ->
                        {"metrics", "busiest day", "top months", "by season"}
                   [] page = "Weather component and bike usage" ->
                        {"daily chart", "weekday share"}
                   [] page = "Most popular stations" ->
                        IF ~IsEmpty(top20) THEN {"top20 chart", "top20 text"}
                        ELSE {"info: Top-20 file missing or lacks columns"}
                   [] page = "Interactive map with aggregated bike trips" ->
                        IF map_exists THEN {"map text", "map"}
                        ELSE {"map text", "info: Map file not found"}
                   [] OTHER ->
                        {"recommendations"} \cup (IF picks.t1_name # "" THEN {"rec 1"} ELSE {})
  /\ UNCHANGED <<inputs, bound, df, top20, tripStats, rankStats, pickStats>>

Next ==
  \/ StopOnMissingData
  \/ LoadData
  \/ Normalize
  \/ TripStats
  \/ TripStatsRaises
  \/ RankPrep
  \/ RankPrepRaises
  \/ PickStep
  \/ Render

Spec == Init /\ [][Next]_vars

\* ------------------------------------------------------------------------
\* What the claims speak of, stated on the input files
\* ------------------------------------------------------------------------
Computed(name) == name \in bound

IsZeroShare(x) == x.num = 0 /\ x.den # 0

\* number of rows of the trip file dated d
TripsOn(d) == Cardinality({i \in 1..Len(data_csv) : data_csv[i] = d})

\* Saturdays and Sundays of 2022: day 1 was a Saturday
OnWeekend(d) == (d % 7) \in {1, 2}

SeasonOfMonth == <<"Winter", "Winter", "Spring", "Spring", "Spring", "Summer",
                   "Summer", "Summer", "Fall", "Fall", "Fall", "Winter">>
Seasons == {"Winter", "Spring", "Summer", "Fall"}
TripsIn(season) ==
  Cardinality({i \in 1..Len(data_csv) : SeasonOfMonth[Month(data_csv[i])] = season})

Descending(frame) ==
  \A i \in 1..Len(frame), j \in 1..Len(frame) : i < j => frame[i].trips >= frame[j].trips

\* the ranking file as the preparation meets it
NormalizedFile == IF top20_exists THEN NormalizeColumns(top20_csv) ELSE EmptyTop20

\* the counts of the valid rows of the ranking file (station and count both
\* present), in file order; none when a column is missing
ValidCounts ==
  LET t == NormalizedFile
  IN IF ~HasColumn(t, SSN) \/ ~HasColumn(t, VALUE) THEN <<>>
     ELSE LET n == CHOOSE j \in 1..Len(t.cols) : t.cols[j] = SSN /\ \A k \in 1..(j - 1) : t.cols[k] # SSN
              v == CHOOSE j \in 1..Len(t.cols) : t.cols[j] = VALUE /\ \A k \in 1..(j - 1) : t.cols[k] # VALUE
              ok == SelectSeq(t.rows, LAMBDA row : row[n] # NaN /\ row[v] # NaN)
          IN [r \in 1..Len(ok) |-> ok[r][v]]

Largest(s) == CHOOSE i \in 1..Len(s) : \A j \in 1..Len(s) : s[j] <= s[i]
Without(s, i) == SubSeq(s, 1, i - 1) \o SubSeq(s, i + 1, Len(s))

\* the sum of the k largest elements of s
RECURSIVE SumLargest(_, _)
SumLargest(s, k) ==
  IF k = 0 \/ s = <<>> THEN 0
  ELSE s[Largest(s)] + SumLargest(Without(s, Largest(s)), k - 1)

ShareColumn == IF "share_of_top20" \in DOMAIN top20 THEN top20.share_of_top20 ELSE <<>>

Count(t, label) == Cardinality({j \in 1..Len(t.cols) : t.cols[j] = label})

\* ------------------------------------------------------------------------
\* Claims
\* ------------------------------------------------------------------------

\* C1: when the trip file is missing the run shows the error and stops: nothing
\* is read, no statistic is computed and no page view is rendered.
C1_MissingDataHalts ==
  ~data_exists =>
    /\ pc \in {"start", "stopped"}
    /\ bound = {}
    /\ view = "none"
    /\ error = ""
    /\ pc = "stopped" => "error: Data file not found" \in shown

C1_Witness == ~data_exists /\ pc = "stopped" /\ page = "Recommendations"

\* C2 (as claimed): a ranking file with at least one row that lacks the station
\* or the value column after normalization does not make the run raise; it is
\* treated as empty: top20_total is 0 and the picks are the defaults.
C2_SchemaMismatchTreatedAsEmpty ==
  (data_exists /\ top20_exists /\ Len(top20_csv.rows) >= 1 /\ SelectRaises(NormalizedFile)) =>
    /\ ~(pc = "raised" /\ error = "KeyError")
    /\ Computed("top20_total") => top20_total = 0
    /\ Computed("picks") =>
         /\ picks.t1_name = ""
         /\ IsZeroShare(picks.top1_share)
         /\ IsZeroShare(picks.top3_share)
         /\ IsZeroShare(picks.top5_share)

\* C3 (as claimed): on a trip file without rows the statistics are computed
\* without raising: sample_total 0, no daily aggregate, both totals 0 and
\* weekend_share 0.0.
C3_ZeroTripsCompletes ==
  (data_exists /\ data_csv = <<>>) =>
    /\ pc # "raised"
    /\ pc \in {"rank", "picks", "render", "done"} =>
         /\ sample_total = 0 /\ daily = <<>>
         /\ weekend_total = 0 /\ weekday_total = 0
         /\ IsZeroShare(weekend_share)

\* C4: weekend_total + weekday_total = sample_total = the number of rows of the
\* trip file; the two totals count the rows dated on / off a Saturday or
\* Sunday, and the per-date counts sum to sample_total.
C4_TotalsPartitionSample ==
  Computed("weekend_share") =>
    /\ sample_total = Len(data_csv)
    /\ weekend_total + weekday_total = sample_total
    /\ weekend_total = Cardinality({i \in 1..Len(data_csv) : OnWeekend(data_csv[i])})
    /\ weekday_total = Cardinality({i \in 1..Len(data_csv) : ~OnWeekend(data_csv[i])})
    /\ SumSeq(TripsOf(daily)) = sample_total
    /\ \A k \in 1..Len(daily) : daily[k].trips = TripsOn(daily[k].date)

C4_Witness ==
  /\ pc = "done"
  /\ weekend_total > 0 /\ weekday_total > 0
  /\ \E k \in 1..Len(daily) : daily[k].trips >= 2

\* C5 (as claimed): seasonal has exactly one entry for each of the four seasons,
\* a season without trips included with count 0, each count the number of
\* trips of that season, in descending order of count.
C5_AllFourSeasons ==
  Computed("seasonal") =>
    /\ \A s \in Seasons :
         \E k \in 1..Len(seasonal) :
           /\ seasonal[k].season = s /\ seasonal[k].trips = TripsIn(s)
           /\ \A j \in 1..Len(seasonal) : seasonal[j].season = s => j = k
    /\ Descending(seasonal)

\* C5 (amended): for a trip file with at least one row, seasonal has exactly
\* one entry for each season that has a trip and none for a season without,
\* each count the number of trips of that season, in descending order of count.
C5_SeasonsWithTrips ==
  /\ Computed("seasonal") =>
       /\ \A s \in Seasons :
            IF TripsIn(s) > 0
            THEN \E k \in 1..Len(seasonal) :
                   /\ seasonal[k].season = s /\ seasonal[k].trips = TripsIn(s)
                   /\ \A j \in 1..Len(seasonal) : seasonal[j].season = s => j = k
            ELSE \A k \in 1..Len(seasonal) : seasonal[k].season # s
       /\ \A k \in 1..Len(seasonal) : seasonal[k].season \in Seasons
       /\ Descending(seasonal)
  /\ (Len(data_csv) > 0 /\ pc \in {"rank", "picks", "render", "done"}) => Computed("seasonal")

C5_Witness ==
  /\ Computed("seasonal")
  /\ Len(seasonal) = 2
  /\ seasonal[1].trips > seasonal[2].trips
  /\ seasonal[1].season = "Winter"

\* C6: the picks are computed only from a ranking file with at least 5 valid
\* rows; with fewer (the empty file, 4 rows) t1_name is "", t1_val 0 and the
\* three shares 0.0.  When computed, top3_share and top5_share are the sum of
\* the 3, 5 largest counts over the sum of all counts.
C6_PicksNeedFiveRows ==
  Computed("picks") =>
    LET n == Len(ValidCounts)
        total == SumSeq(ValidCounts)
    IN /\ n < 5 =>
            /\ picks.t1_name = "" /\ picks.t1_val = 0
            /\ picks.top1_share = Zero /\ picks.top3_share = Zero /\ picks.top5_share = Zero
       /\ (n >= 5 /\ total > 0) =>
            /\ picks.t1_name # ""
            /\ picks.t1_val = SumLargest(ValidCounts, 1)
            /\ RatEq(picks.top1_share, Rat(SumLargest(ValidCounts, 1), total))
            /\ RatEq(picks.top3_share, Rat(SumLargest(ValidCounts, 3), total))
            /\ RatEq(picks.top5_share, Rat(SumLargest(ValidCounts, 5), total))
       /\ picks # DefaultPicks => n >= 5

C6_Witness ==
  /\ pc = "done"
  /\ Len(ValidCounts) = 6
  /\ Len(top20_csv.rows) = 6
  /\ picks.top3_share.num = 3
  /\ picks.top5_share.num = 5
  /\ picks.top5_share.den = 6

\* C7 (as claimed): weekend_share is 0.0 exactly when weekend_total +
\* weekday_total = 0, and is weekend_total / (weekend_total + weekday_total)
\* otherwise.
C7_ZeroIffNoTrips ==
  Computed("weekend_share") =>
    /\ IsZeroShare(weekend_share) <=> (weekend_total + weekday_total = 0)
    /\ weekend_total + weekday_total # 0 =>
         RatEq(weekend_share, Rat(weekend_total, weekend_total + weekday_total))

\* C7 (amended): weekend_share is 0.0 exactly when weekend_total = 0 (both
\* totals zero, or weekday trips only), and whenever weekend_total +
\* weekday_total > 0 it is weekend_total / (weekend_total + weekday_total).
C7_ZeroIffNoWeekendTrips ==
  Computed("weekend_share") =>
    /\ IsZeroShare(weekend_share) <=> (weekend_total = 0)
    /\ weekend_total + weekday_total = 0 => weekend_share = Zero
    /\ weekend_total + weekday_total > 0 =>
         RatEq(weekend_share, Rat(weekend_total, weekend_total + weekday_total))

C7_Witness ==
  /\ Computed("weekend_share")
  /\ weekend_total = 0 /\ weekday_total > 0
  /\ IsZeroShare(weekend_share)

\* C8: after the preparation top20_total is the sum of the counts of the rows
\* kept (the valid rows of the file); the shares value / top20_total sum to 1
\* when there is a row and top20_total > 0, and are all 0.0 (sum 0.0) when
\* there is no row or top20_total is 0.
C8_SharesSumToOne ==
  Computed("top20_total") =>
    /\ top20_total = SumSeq(ValidCounts)
    /\ Len(top20.rows) = Len(ValidCounts)
    /\ (Len(top20.rows) > 0 /\ top20_total > 0) =>
         /\ Len(ShareColumn) = Len(top20.rows)
         /\ RatEq(RatSum(ShareColumn), Rat(1, 1))
         /\ \A r \in 1..Len(top20.rows) :
              RatEq(ShareColumn[r], Rat(ValueColumn(top20)[r], top20_total))
    /\ (Len(top20.rows) = 0 \/ top20_total = 0) =>
         /\ \A r \in 1..Len(ShareColumn) : ShareColumn[r] = Zero
         /\ IsZeroShare(RatSum(ShareColumn))

C8_Witness ==
  /\ pc = "done"
  /\ Len(top20.rows) = 3
  /\ Len(top20_csv.rows) = 5
  /\ top20_total = 2
  /\ IsZeroShare(ShareColumn[3])

\* C9: on a trip file with at least one row peak_date is a date with the
\* largest number of trips, the earliest such date, and peak_trips is that
\* number.
C9_PeakIsFirstMaximum ==
  /\ Computed("peak_date") =>
       /\ peak_date \in Range(data_csv)
       /\ peak_trips = TripsOn(peak_date)
       /\ \A d \in Range(data_csv) : TripsOn(d) <= peak_trips
       /\ \A d \in Range(data_csv) : TripsOn(d) = peak_trips => peak_date <= d
  /\ (Len(data_csv) > 0 /\ pc \in {"rank", "picks", "render", "done"}) => Computed("peak_date")

C9_Witness ==
  /\ Computed("peak_date")
  /\ \E d \in Range(data_csv) : d > peak_date /\ TripsOn(d) = peak_trips
  /\ Len(data_csv) = 3
  /\ data_csv[1] > data_csv[2]

\* C10 (as claimed): normalization renames at most one column to
\* start_station_name and at most one to value, so the normalized frame never
\* carries either label twice.
C10_AtMostOneRenamed ==
  pc = "stats" => Count(top20, SSN) <= 1 /\ Count(top20, VALUE) <= 1

====
